---- MODULE Spec2Model ----
(***************************************************************************)
(* MLP-Mixer (image_classification/MLP-Mixer/mlp_mixer.py).                *)
(*                                                                         *)
(* The model is built by build_mlp_mixer(config) or by MlpMixer(...) and   *)
(* then run on one input batch, one source line of the forward methods per *)
(* step.  A tensor is a record [shape, val]: shape is the tuple of its     *)
(* axis sizes, computed as the layers compute it, and val is the value of  *)
(* one sample of the batch, written as the postfix term of the operations  *)
(* that produced it (the layers are uninterpreted functions; every layer   *)
(* of this file acts on each sample of the batch on its own).              *)
(***************************************************************************)
EXTENDS Integers, Sequences, FiniteSets, TLC

VARIABLES pc, ctor, config, args, model, training, x0, x, h, i, mlp, ret,
          flog, blog, mlog, blkIn, blkIO, half1, branch, gate1, gate2, mlpIn

vars == <<pc, ctor, config, args, model, training, x0, x, h, i, mlp, ret,
          flog, blog, mlog, blkIn, blkIO, half1, branch, gate1, gate2, mlpIn>>

----------------------------------------------------------------------------
(* Bounds of the explored configurations and inputs.  embed_dim starts at  *)
(* 2: with embed_dim = 1 the default ratio gives int(0.5 * 1) = 0 hidden   *)
(* units for mlp_tokens.                                                   *)

MaxImageSize == 3
MaxPatchSize == 2
MaxLayers == 2
MaxEmbedDim == 3
MaxBatch == 2

(* Defaults of MlpMixer.__init__ that build_mlp_mixer relies on.           *)
DefaultPatchSize == 16

(* Dropout and droppath rates, in tenths.                                  *)
Rates == {0, 1}

(* mlp_ratio entries as exact fractions n/d (0.5 = 1/2, 4.0 = 4/1).        *)
DefaultMlpRatio == << [n |-> 1, d |-> 2], [n |-> 4, d |-> 1] >>
MlpRatios == { DefaultMlpRatio, << [n |-> 3, d |-> 2], [n |-> 2, d |-> 1] >> }

(* Image sizes a config of build_mlp_mixer asks for: the patch size is the *)
(* default 16 there, so one multiple of it and one size that is not.       *)
ConfigImageSizes == { DefaultPatchSize, 2 * DefaultPatchSize + 1 }

ClassCounts == {2, 3}
ChannelCounts == {1, 3}

----------------------------------------------------------------------------
(* Tensors and the library layers, by their shape rule and their term.     *)

Tensor(shape, val) == [shape |-> shape, val |-> val]
NoTensor == Tensor(<< >>, << >>)
Zero == << "0" >>

Last(s) == s[Len(s)]
SetLast(s, v) == [s EXCEPT ![Len(s)] = v]

(* nn.Conv2D without padding or dilation: positions along one axis.        *)
ConvOutputSize(size, kernel, stride) == ((size - kernel) \div stride) + 1

Conv2DOk(conv, t) ==
    /\ Len(t.shape) = 4
    /\ t.shape[2] = conv.in_channels
    /\ t.shape[3] >= conv.kernel_size
    /\ t.shape[4] >= conv.kernel_size

Conv2D(conv, t) ==
    Tensor(<< t.shape[1], conv.out_channels,
              ConvOutputSize(t.shape[3], conv.kernel_size, conv.stride),
              ConvOutputSize(t.shape[4], conv.kernel_size, conv.stride) >>,
           Append(t.val, "conv"))

(* The input pixels, along one axis, under position j of the convolution.  *)
PatchPixels(conv, j) == { j * conv.stride + k : k \in 0 .. (conv.kernel_size - 1) }

(* x.flatten(start_axis=2, stop_axis=-1) of a 4-axis tensor.               *)
Flatten2(t) ==
    Tensor(<< t.shape[1], t.shape[2], t.shape[3] * t.shape[4] >>, Append(t.val, "flatten"))

(* x.transpose([0, 2, 1]); transposing twice gives the tensor back.        *)
Transpose021(t) ==
    Tensor(<< t.shape[1], t.shape[3], t.shape[2] >>,
           IF Len(t.val) > 0 /\ Last(t.val) = "T"
           THEN SubSeq(t.val, 1, Len(t.val) - 1)
           ELSE Append(t.val, "T"))

LinearOk(fc, t) == Len(t.shape) >= 1 /\ Last(t.shape) = fc.in_features
Linear(fc, t) == Tensor(SetLast(t.shape, fc.out_features), Append(t.val, fc.name))

LayerNormOk(norm, t) == Len(t.shape) >= 1 /\ Last(t.shape) = norm.dim
LayerNorm(norm, t) == Tensor(t.shape, Append(t.val, "layer_norm"))

GELU(t) == Tensor(t.shape, Append(t.val, "gelu"))

(* nn.Dropout(p): the input itself in eval mode or with p = 0.             *)
Dropout(p, train, t) ==
    IF train /\ p > 0 THEN Tensor(t.shape, Append(t.val, "dropout")) ELSE t

(* x.mean(axis=1) of a 3-axis tensor.                                      *)
Mean1(t) == Tensor(<< t.shape[1], t.shape[3] >>, Append(t.val, "mean"))

(* a + b; adding the zero tensor gives the other summand.                  *)
Add(a, b) ==
    Tensor(a.shape, IF a.val = Zero THEN b.val
                    ELSE IF b.val = Zero THEN a.val
                    ELSE a.val \o b.val \o << "add" >>)

----------------------------------------------------------------------------
(* Construction.                                                           *)

Identity == [kind |-> "Identity", dim |-> 0]
None == [kind |-> "None", dim |-> 0]
NewLayerNorm(dim) == [kind |-> "LayerNorm", dim |-> dim]
NewLinear(name, in_features, out_features) ==
    [name |-> name, in_features |-> in_features, out_features |-> out_features]

(* DropPath(droppath) of the droppath module: the stochastic-depth gate.   *)
DropPath(drop_prob) == [drop_prob |-> drop_prob]

(* PatchEmbedding with the stride of the convolution left at 1.            *)
PatchEmbedding_unit_stride(image_size, patch_size, in_channels, embed_dim, norm_layer) ==
    LET patches_resolution == << image_size \div patch_size, image_size \div patch_size >>
    IN  [ image_size |-> << image_size, image_size >>,
          patch_size |-> << patch_size, patch_size >>,
          patches_resolution |-> patches_resolution,
          num_patches |-> patches_resolution[1] * patches_resolution[2],
          in_channels |-> in_channels,
          embed_dim |-> embed_dim,
          patch_embed |-> [ in_channels |-> in_channels,
                            out_channels |-> embed_dim,
                            kernel_size |-> patch_size,
                            stride |-> 1 ],
          norm |-> IF norm_layer # None THEN norm_layer ELSE Identity ]

PatchEmbedding(image_size, patch_size, in_channels, embed_dim, norm_layer) ==
    LET patches_resolution == << image_size \div patch_size, image_size \div patch_size >>
    IN  [ image_size |-> << image_size, image_size >>,
          patch_size |-> << patch_size, patch_size >>,
          patches_resolution |-> patches_resolution,
          num_patches |-> patches_resolution[1] * patches_resolution[2],
          in_channels |-> in_channels,
          embed_dim |-> embed_dim,
          patch_embed |-> [ in_channels |-> in_channels,
                            out_channels |-> embed_dim,
                            kernel_size |-> patch_size,
                            stride |-> patch_size ],
          norm |-> IF norm_layer # None THEN norm_layer ELSE Identity ]

(* Mlp whose fc2 is Linear(hidden_features, hidden_features).              *)
Mlp_fc2_keeps_hidden(in_features, hidden_features, dropout) ==
    [ fc1 |-> NewLinear("fc1", in_features, hidden_features),
      fc2 |-> NewLinear("fc2", hidden_features, hidden_features),
      dropout |-> dropout ]

Mlp(in_features, hidden_features, dropout) ==
    [ fc1 |-> NewLinear("fc1", in_features, hidden_features),
      fc2 |-> NewLinear("fc2", hidden_features, in_features),
      dropout |-> dropout ]

(* int(ratio * dim) for a ratio n/d: truncation of the exact product.      *)
IntOfProduct(ratio, dim) == (ratio.n * dim) \div ratio.d

(* MixerBlock with tokens_dim = int(mlp_ratio[0] * seq_len).               *)
MixerBlock_tokens_dim_of_seq_len(dim, seq_len, mlp_ratio, dropout, droppath) ==
    LET tokens_dim == IntOfProduct(mlp_ratio[1], seq_len)
        channels_dim == IntOfProduct(mlp_ratio[2], dim)
    IN  [ norm1 |-> NewLayerNorm(dim),
          mlp_tokens |-> Mlp(seq_len, tokens_dim, dropout),
          drop_path |-> DropPath(droppath),
          norm2 |-> NewLayerNorm(dim),
          mlp_channels |-> Mlp(dim, channels_dim, dropout) ]

(* MixerBlock with mlp_tokens built as Mlp(dim, tokens_dim).               *)
MixerBlock_tokens_over_channels(dim, seq_len, mlp_ratio, dropout, droppath) ==
    LET tokens_dim == IntOfProduct(mlp_ratio[1], dim)
        channels_dim == IntOfProduct(mlp_ratio[2], dim)
    IN  [ norm1 |-> NewLayerNorm(dim),
          mlp_tokens |-> Mlp(dim, tokens_dim, dropout),
          drop_path |-> DropPath(droppath),
          norm2 |-> NewLayerNorm(dim),
          mlp_channels |-> Mlp(dim, channels_dim, dropout) ]

MixerBlock(dim, seq_len, mlp_ratio, dropout, droppath) ==
    LET tokens_dim == IntOfProduct(mlp_ratio[1], dim)
        channels_dim == IntOfProduct(mlp_ratio[2], dim)
    IN  [ norm1 |-> NewLayerNorm(dim),
          mlp_tokens |-> Mlp(seq_len, tokens_dim, dropout),
          drop_path |-> DropPath(droppath),
          norm2 |-> NewLayerNorm(dim),
          mlp_channels |-> Mlp(dim, channels_dim, dropout) ]

MlpMixer(num_classes, image_size, in_channels, patch_size, num_mixer_layers, embed_dim, mlp_ratio, dropout, droppath, patch_embed_norm) ==
    LET norm_layer == NewLayerNorm(embed_dim)
        patch_embed == PatchEmbedding(image_size, patch_size, in_channels, embed_dim,
                                      IF patch_embed_norm THEN norm_layer ELSE None)
    IN  [ num_classes |-> num_classes,
          num_features |-> embed_dim,
          embed_dim |-> embed_dim,
          patch_embed |-> patch_embed,
          mixer_layers |-> [ k \in 1 .. num_mixer_layers |->
                               MixerBlock(embed_dim, patch_embed.num_patches,
                                          mlp_ratio, dropout, droppath) ],
          norm |-> NewLayerNorm(embed_dim),
          head |-> NewLinear("head", embed_dim, num_classes) ]

(* build_mlp_mixer with dropout and droppath passed in each other's place. *)
build_mlp_mixer_rates_swapped(cfg) ==
    MlpMixer(cfg.MODEL.NUM_CLASSES, cfg.DATA.IMAGE_SIZE, 3, DefaultPatchSize,
             cfg.MODEL.MIXER.NUM_LAYERS, cfg.MODEL.MIXER.HIDDEN_SIZE,
             DefaultMlpRatio, cfg.MODEL.DROPPATH, cfg.MODEL.DROPOUT, FALSE)

build_mlp_mixer(cfg) ==
    MlpMixer(cfg.MODEL.NUM_CLASSES, cfg.DATA.IMAGE_SIZE, 3, DefaultPatchSize,
             cfg.MODEL.MIXER.NUM_LAYERS, cfg.MODEL.MIXER.HIDDEN_SIZE,
             DefaultMlpRatio, cfg.MODEL.DROPOUT, cfg.MODEL.DROPPATH, FALSE)

Config(num_classes, image_size, num_layers, hidden_size, dropout, droppath) ==
    [ MODEL |-> [ NUM_CLASSES |-> num_classes,
                  MIXER |-> [ NUM_LAYERS |-> num_layers, HIDDEN_SIZE |-> hidden_size ],
                  DROPOUT |-> dropout,
                  DROPPATH |-> droppath ],
      DATA |-> [ IMAGE_SIZE |-> image_size ] ]

NoConfig == Config(0, 0, 0, 0, 0, 0)
NoArgs == [ num_classes |-> 0 ]
NoModel == [ num_classes |-> 0 ]
NoMlp == Mlp(0, 0, 0)

(* DropPath.forward for one sample: the input itself when the rate is 0 or *)
(* in eval mode; otherwise the sample is either zeroed or kept and scaled  *)
(* by 1 / keep_prob.                                                       *)
GateOutcomes(dp, train) ==
    IF dp.drop_prob = 0 \/ ~train THEN {"off"} ELSE {"keep", "drop"}

DropPathForward(outcome, t) ==
    CASE outcome = "off"  -> t
      [] outcome = "keep" -> Tensor(t.shape, Append(t.val, "scale"))
      [] outcome = "drop" -> Tensor(t.shape, Zero)

----------------------------------------------------------------------------
(* State.                                                                  *)

Init ==
    /\ pc = "start"
    /\ ctor = "none"
    /\ config = NoConfig
    /\ args = NoArgs
    /\ model = NoModel
    /\ training = FALSE
    /\ x0 = NoTensor
    /\ x = NoTensor
    /\ h = NoTensor
    /\ i = 0
    /\ mlp = NoMlp
    /\ ret = "none"
    /\ flog = << >>
    /\ blog = << >>
    /\ mlog = << >>
    /\ blkIn = NoTensor
    /\ blkIO = << >>
    /\ half1 = NoTensor
    /\ branch = NoTensor
    /\ gate1 = "none"
    /\ gate2 = "none"
    /\ mlpIn = NoTensor

run == <<training, x0, x, h, i, mlp, ret, flog, blog, mlog, blkIn, blkIO,
         half1, branch, gate1, gate2, mlpIn>>

Configs ==
    { Config(nc, sz, nl, hs, dr, dp) :
        nc \in ClassCounts, sz \in ConfigImageSizes, nl \in 0 .. MaxLayers,
        hs \in 2 .. MaxEmbedDim, dr \in Rates, dp \in Rates }

(* model = build_mlp_mixer(config)                                         *)
BuildMlpMixer ==
    /\ pc = "start"
    /\ \E cfg \in Configs :
          /\ config' = cfg
          /\ model' = build_mlp_mixer(cfg)
    /\ ctor' = "build_mlp_mixer"
    /\ args' = args
    /\ pc' = "ready"
    /\ UNCHANGED run

(* model = MlpMixer(...) called directly, with the arguments              *)
(* build_mlp_mixer cannot set (patch_size, mlp_ratio, patch_embed_norm);   *)
(* in_channels is 3 as there, dropout is left at its default 0 and there  *)
(* are two classes.                                                        *)
NewMlpMixer ==
    /\ pc = "start"
    /\ \E nc \in {2}, sz \in 1 .. MaxImageSize, ch \in {3},
          ps \in 1 .. MaxPatchSize, nl \in 0 .. MaxLayers, ed \in 2 .. MaxEmbedDim,
          mr \in MlpRatios, dr \in {0}, dp \in Rates, pen \in BOOLEAN :
          /\ args' = [ num_classes |-> nc, image_size |-> sz, in_channels |-> ch,
                       patch_size |-> ps, num_mixer_layers |-> nl, embed_dim |-> ed,
                       mlp_ratio |-> mr, dropout |-> dr, droppath |-> dp,
                       patch_embed_norm |-> pen ]
          /\ model' = MlpMixer(nc, sz, ch, ps, nl, ed, mr, dr, dp, pen)
    /\ ctor' = "MlpMixer"
    /\ config' = config
    /\ pc' = "ready"
    /\ UNCHANGED run

built == <<ctor, config, args, model>>

(* model.train() or model.eval(), then model(x) on a batch of square       *)
(* images.                                                                 *)
Forward ==
    /\ pc = "ready"
    /\ \E b \in 1 .. MaxBatch, ch \in ChannelCounts,
          sz \in (1 .. MaxImageSize) \cup {model.patch_embed.image_size[1]},
          tr \in BOOLEAN :
          /\ x0' = Tensor(<< b, ch, sz, sz >>, << "x" >>)
          /\ x' = Tensor(<< b, ch, sz, sz >>, << "x" >>)
          /\ training' = tr
    /\ flog' = << "patch_embed" >>
    /\ pc' = "pe_conv"
    /\ UNCHANGED <<built, h, i, mlp, ret, blog, mlog, blkIn, blkIO, half1, branch,
                   gate1, gate2, mlpIn>>

(* PatchEmbedding.forward                                                  *)
PatchEmbedding_conv ==
    /\ pc = "pe_conv"
    /\ IF Conv2DOk(model.patch_embed.patch_embed, x)
       THEN x' = Conv2D(model.patch_embed.patch_embed, x) /\ pc' = "pe_flatten"
       ELSE x' = x /\ pc' = "error"
    /\ UNCHANGED <<built, training, x0, h, i, mlp, ret, flog, blog, mlog, blkIn, blkIO,
                   half1, branch, gate1, gate2, mlpIn>>

PatchEmbedding_flatten ==
    /\ pc = "pe_flatten"
    /\ x' = Flatten2(x)
    /\ pc' = "pe_transpose"
    /\ UNCHANGED <<built, training, x0, h, i, mlp, ret, flog, blog, mlog, blkIn, blkIO,
                   half1, branch, gate1, gate2, mlpIn>>

PatchEmbedding_transpose ==
    /\ pc = "pe_transpose"
    /\ x' = Transpose021(x)
    /\ pc' = "pe_norm"
    /\ UNCHANGED <<built, training, x0, h, i, mlp, ret, flog, blog, mlog, blkIn, blkIO,
                   half1, branch, gate1, gate2, mlpIn>>

(* PatchEmbedding.forward without its line x = self.norm(x).               *)
PatchEmbedding_norm_missing ==
    /\ pc = "pe_norm"
    /\ pc' = "mixer_layers"
    /\ UNCHANGED <<built, training, x0, x, h, i, mlp, ret, flog, blog, mlog, blkIn,
                   blkIO, half1, branch, gate1, gate2, mlpIn>>

(* self.norm(x): the LayerNorm passed in, or Identity, which returns x.    *)
PatchEmbedding_norm ==
    /\ pc = "pe_norm"
    /\ IF model.patch_embed.norm = Identity
       THEN x' = x /\ pc' = "mixer_layers"
       ELSE IF LayerNormOk(model.patch_embed.norm, x)
            THEN x' = LayerNorm(model.patch_embed.norm, x) /\ pc' = "mixer_layers"
            ELSE x' = x /\ pc' = "error"
    /\ UNCHANGED <<built, training, x0, h, i, mlp, ret, flog, blog, mlog, blkIn, blkIO,
                   half1, branch, gate1, gate2, mlpIn>>

(* self.mixer_layers(x): nn.Sequential calls the blocks one after another, *)
(* each on the output of the one before it.                                *)
Sequential_next ==
    /\ pc = "mixer_layers"
    /\ i < Len(model.mixer_layers)
    /\ i' = i + 1
    /\ blkIn' = x
    /\ blkIO' = Append(blkIO, [in |-> x, out |-> NoTensor])
    /\ flog' = Append(flog, "block")
    /\ blog' = << >>
    /\ pc' = "blk_h1"
    /\ UNCHANGED <<built, training, x0, x, h, mlp, ret, mlog, half1, branch,
                   gate1, gate2, mlpIn>>

Sequential_return ==
    /\ pc = "mixer_layers"
    /\ i = Len(model.mixer_layers)
    /\ pc' = "norm"
    /\ UNCHANGED <<built, training, x0, x, h, i, mlp, ret, flog, blog, mlog,
                   blkIn, blkIO, half1, branch, gate1, gate2, mlpIn>>

(* MixerBlock.forward                                                      *)
MixerBlock_h1 ==
    /\ pc = "blk_h1"
    /\ h' = x
    /\ blog' = Append(blog, "h")
    /\ pc' = "blk_norm1"
    /\ UNCHANGED <<built, training, x0, x, i, mlp, ret, flog, mlog, blkIn,
                   blkIO, half1, branch, gate1, gate2, mlpIn>>

MixerBlock_norm1 ==
    /\ pc = "blk_norm1"
    /\ IF LayerNormOk(model.mixer_layers[i].norm1, x)
       THEN x' = LayerNorm(model.mixer_layers[i].norm1, x) /\ pc' = "blk_t1"
       ELSE x' = x /\ pc' = "error"
    /\ blog' = Append(blog, "norm1")
    /\ UNCHANGED <<built, training, x0, h, i, mlp, ret, flog, mlog, blkIn,
                   blkIO, half1, branch, gate1, gate2, mlpIn>>

MixerBlock_transpose1 ==
    /\ pc = "blk_t1"
    /\ x' = Transpose021(x)
    /\ blog' = Append(blog, "transpose")
    /\ pc' = "blk_mlp_tokens"
    /\ UNCHANGED <<built, training, x0, h, i, mlp, ret, flog, mlog, blkIn,
                   blkIO, half1, branch, gate1, gate2, mlpIn>>

MixerBlock_mlp_tokens ==
    /\ pc = "blk_mlp_tokens"
    /\ mlp' = model.mixer_layers[i].mlp_tokens
    /\ ret' = "blk_t2"
    /\ mlpIn' = x
    /\ mlog' = << >>
    /\ blog' = Append(blog, "mlp_tokens")
    /\ pc' = "mlp_fc1"
    /\ UNCHANGED <<built, training, x0, x, h, i, flog, blkIn, blkIO, half1,
                   branch, gate1, gate2>>

MixerBlock_transpose2 ==
    /\ pc = "blk_t2"
    /\ x' = Transpose021(x)
    /\ blog' = Append(blog, "transpose")
    /\ pc' = "blk_gate1"
    /\ UNCHANGED <<built, training, x0, h, i, mlp, ret, flog, mlog, blkIn,
                   blkIO, half1, branch, gate1, gate2, mlpIn>>

MixerBlock_drop_path1 ==
    /\ pc = "blk_gate1"
    /\ \E outcome \in GateOutcomes(model.mixer_layers[i].drop_path, training) :
          /\ gate1' = outcome
          /\ x' = DropPathForward(outcome, x)
    /\ branch' = x
    /\ blog' = Append(blog, "drop_path")
    /\ pc' = "blk_add1"
    /\ UNCHANGED <<built, training, x0, h, i, mlp, ret, flog, mlog, blkIn,
                   blkIO, half1, gate2, mlpIn>>

(* MixerBlock.forward with x = self.drop_path(x + h) in the first half.    *)
MixerBlock_add1_residual_gated ==
    /\ pc = "blk_add1"
    /\ x' = DropPathForward(gate1, Add(branch, h))
    /\ half1' = DropPathForward(gate1, Add(branch, h))
    /\ blog' = Append(blog, "add")
    /\ pc' = "blk_h2"
    /\ UNCHANGED <<built, training, x0, h, i, mlp, ret, flog, mlog, blkIn, blkIO,
                   branch, gate1, gate2, mlpIn>>

MixerBlock_add1 ==
    /\ pc = "blk_add1"
    /\ x' = Add(x, h)
    /\ half1' = Add(x, h)
    /\ blog' = Append(blog, "add")
    /\ pc' = "blk_h2"
    /\ UNCHANGED <<built, training, x0, h, i, mlp, ret, flog, mlog, blkIn,
                   blkIO, branch, gate1, gate2, mlpIn>>

(* MixerBlock.forward without its second h = x.                            *)
MixerBlock_h2_missing ==
    /\ pc = "blk_h2"
    /\ pc' = "blk_norm2"
    /\ UNCHANGED <<built, training, x0, x, h, i, mlp, ret, flog, blog, mlog, blkIn,
                   blkIO, half1, branch, gate1, gate2, mlpIn>>

MixerBlock_h2 ==
    /\ pc = "blk_h2"
    /\ h' = x
    /\ blog' = Append(blog, "h")
    /\ pc' = "blk_norm2"
    /\ UNCHANGED <<built, training, x0, x, i, mlp, ret, flog, mlog, blkIn,
                   blkIO, half1, branch, gate1, gate2, mlpIn>>

MixerBlock_norm2 ==
    /\ pc = "blk_norm2"
    /\ IF LayerNormOk(model.mixer_layers[i].norm2, x)
       THEN x' = LayerNorm(model.mixer_layers[i].norm2, x) /\ pc' = "blk_mlp_channels"
       ELSE x' = x /\ pc' = "error"
    /\ blog' = Append(blog, "norm2")
    /\ UNCHANGED <<built, training, x0, h, i, mlp, ret, flog, mlog, blkIn,
                   blkIO, half1, branch, gate1, gate2, mlpIn>>

MixerBlock_mlp_channels ==
    /\ pc = "blk_mlp_channels"
    /\ mlp' = model.mixer_layers[i].mlp_channels
    /\ ret' = "blk_gate2"
    /\ mlpIn' = x
    /\ mlog' = << >>
    /\ blog' = Append(blog, "mlp_channels")
    /\ pc' = "mlp_fc1"
    /\ UNCHANGED <<built, training, x0, x, h, i, flog, blkIn, blkIO, half1,
                   branch, gate1, gate2>>

MixerBlock_drop_path2 ==
    /\ pc = "blk_gate2"
    /\ \E outcome \in GateOutcomes(model.mixer_layers[i].drop_path, training) :
          /\ gate2' = outcome
          /\ x' = DropPathForward(outcome, x)
    /\ branch' = x
    /\ blog' = Append(blog, "drop_path")
    /\ pc' = "blk_add2"
    /\ UNCHANGED <<built, training, x0, h, i, mlp, ret, flog, mlog, blkIn,
                   blkIO, half1, gate1, mlpIn>>

MixerBlock_add2 ==
    /\ pc = "blk_add2"
    /\ x' = Add(x, h)
    /\ blkIO' = [blkIO EXCEPT ![i].out = Add(x, h)]
    /\ blog' = Append(blog, "add")
    /\ pc' = "mixer_layers"
    /\ UNCHANGED <<built, training, x0, h, i, mlp, ret, flog, mlog, blkIn,
                   half1, branch, gate1, gate2, mlpIn>>

(* Mlp.forward                                                             *)
Mlp_fc1 ==
    /\ pc = "mlp_fc1"
    /\ IF LinearOk(mlp.fc1, x)
       THEN x' = Linear(mlp.fc1, x) /\ pc' = "mlp_act"
       ELSE x' = x /\ pc' = "error"
    /\ mlog' = Append(mlog, "fc1")
    /\ UNCHANGED <<built, training, x0, h, i, mlp, ret, flog, blog, blkIn,
                   blkIO, half1, branch, gate1, gate2, mlpIn>>

Mlp_act ==
    /\ pc = "mlp_act"
    /\ x' = GELU(x)
    /\ mlog' = Append(mlog, "act")
    /\ pc' = "mlp_dropout1"
    /\ UNCHANGED <<built, training, x0, h, i, mlp, ret, flog, blog, blkIn,
                   blkIO, half1, branch, gate1, gate2, mlpIn>>

Mlp_dropout1 ==
    /\ pc = "mlp_dropout1"
    /\ x' = Dropout(mlp.dropout, training, x)
    /\ mlog' = Append(mlog, "dropout")
    /\ pc' = "mlp_fc2"
    /\ UNCHANGED <<built, training, x0, h, i, mlp, ret, flog, blog, blkIn,
                   blkIO, half1, branch, gate1, gate2, mlpIn>>

Mlp_fc2 ==
    /\ pc = "mlp_fc2"
    /\ IF LinearOk(mlp.fc2, x)
       THEN x' = Linear(mlp.fc2, x) /\ pc' = "mlp_dropout2"
       ELSE x' = x /\ pc' = "error"
    /\ mlog' = Append(mlog, "fc2")
    /\ UNCHANGED <<built, training, x0, h, i, mlp, ret, flog, blog, blkIn,
                   blkIO, half1, branch, gate1, gate2, mlpIn>>

Mlp_dropout2 ==
    /\ pc = "mlp_dropout2"
    /\ x' = Dropout(mlp.dropout, training, x)
    /\ mlog' = Append(mlog, "dropout")
    /\ pc' = ret
    /\ UNCHANGED <<built, training, x0, h, i, mlp, ret, flog, blog, blkIn,
                   blkIO, half1, branch, gate1, gate2, mlpIn>>

(* MlpMixer.forward_features after the blocks, and MlpMixer.forward        *)
(* forward_features without its line x = self.norm(x).                     *)
MlpMixer_norm_skipped ==
    /\ pc = "norm"
    /\ pc' = "mean"
    /\ UNCHANGED <<built, training, x0, x, h, i, mlp, ret, flog, blog, mlog, blkIn,
                   blkIO, half1, branch, gate1, gate2, mlpIn>>

MlpMixer_norm ==
    /\ pc = "norm"
    /\ IF LayerNormOk(model.norm, x)
       THEN x' = LayerNorm(model.norm, x) /\ pc' = "mean"
       ELSE x' = x /\ pc' = "error"
    /\ flog' = Append(flog, "norm")
    /\ UNCHANGED <<built, training, x0, h, i, mlp, ret, blog, mlog, blkIn,
                   blkIO, half1, branch, gate1, gate2, mlpIn>>

MlpMixer_mean ==
    /\ pc = "mean"
    /\ x' = Mean1(x)
    /\ flog' = Append(flog, "mean")
    /\ pc' = "head"
    /\ UNCHANGED <<built, training, x0, h, i, mlp, ret, blog, mlog, blkIn,
                   blkIO, half1, branch, gate1, gate2, mlpIn>>

MlpMixer_head ==
    /\ pc = "head"
    /\ IF LinearOk(model.head, x)
       THEN x' = Linear(model.head, x) /\ pc' = "done"
       ELSE x' = x /\ pc' = "error"
    /\ flog' = Append(flog, "head")
    /\ UNCHANGED <<built, training, x0, h, i, mlp, ret, blog, mlog, blkIn,
                   blkIO, half1, branch, gate1, gate2, mlpIn>>

Next ==
    \/ BuildMlpMixer
    \/ NewMlpMixer
    \/ Forward
    \/ PatchEmbedding_conv
    \/ PatchEmbedding_flatten
    \/ PatchEmbedding_transpose
    \/ PatchEmbedding_norm
    \/ Sequential_next
    \/ Sequential_return
    \/ MixerBlock_h1
    \/ MixerBlock_norm1
    \/ MixerBlock_transpose1
    \/ MixerBlock_mlp_tokens
    \/ MixerBlock_transpose2
    \/ MixerBlock_drop_path1
    \/ MixerBlock_add1
    \/ MixerBlock_h2
    \/ MixerBlock_norm2
    \/ MixerBlock_mlp_channels
    \/ MixerBlock_drop_path2
    \/ MixerBlock_add2
    \/ Mlp_fc1
    \/ Mlp_act
    \/ Mlp_dropout1
    \/ Mlp_fc2
    \/ Mlp_dropout2
    \/ MlpMixer_norm
    \/ MlpMixer_mean
    \/ MlpMixer_head

Spec == Init /\ [][Next]_vars

----------------------------------------------------------------------------
(* What the caller asked for, on either construction path.                 *)

Built == pc # "start"
Running == pc \notin {"start", "ready"}
ByBuild == ctor = "build_mlp_mixer"

AskedNumClasses == IF ByBuild THEN config.MODEL.NUM_CLASSES ELSE args.num_classes
AskedImageSize == IF ByBuild THEN config.DATA.IMAGE_SIZE ELSE args.image_size
AskedPatchSize == IF ByBuild THEN DefaultPatchSize ELSE args.patch_size
AskedInChannels == IF ByBuild THEN 3 ELSE args.in_channels
AskedLayers == IF ByBuild THEN config.MODEL.MIXER.NUM_LAYERS ELSE args.num_mixer_layers
AskedEmbedDim == IF ByBuild THEN config.MODEL.MIXER.HIDDEN_SIZE ELSE args.embed_dim
AskedMlpRatio == IF ByBuild THEN DefaultMlpRatio ELSE args.mlp_ratio
AskedDropout == IF ByBuild THEN config.MODEL.DROPOUT ELSE args.dropout
AskedDroppath == IF ByBuild THEN config.MODEL.DROPPATH ELSE args.droppath
AskedPatchEmbedNorm == IF ByBuild THEN FALSE ELSE args.patch_embed_norm

AskedNumPatches == (AskedImageSize \div AskedPatchSize) * (AskedImageSize \div AskedPatchSize)

(* The input is a batch of in_channels x image_size x image_size images,   *)
(* with image_size >= patch_size.                                          *)
InputMatches ==
    /\ Running
    /\ AskedImageSize >= AskedPatchSize
    /\ x0.shape = << x0.shape[1], AskedInChannels, AskedImageSize, AskedImageSize >>

Batch == x0.shape[1]

IsPrefix(s, t) == Len(s) <= Len(t) /\ s = SubSeq(t, 1, Len(s))

InMlp == pc \in {"mlp_fc1", "mlp_act", "mlp_dropout1", "mlp_fc2", "mlp_dropout2"}
InTokens == InMlp /\ ret = "blk_t2"
InChannels == InMlp /\ ret = "blk_gate2"

(* What PatchEmbedding.forward is to return for the input x0: the          *)
(* convolution output, flattened and transposed, normalized on request.    *)
EmbeddedPatches == Transpose021(Flatten2(Conv2D(model.patch_embed.patch_embed, x0)))
ExpectedPatchEmbed ==
    IF AskedPatchEmbedNorm
    THEN LayerNorm(NewLayerNorm(AskedEmbedDim), EmbeddedPatches)
    ELSE EmbeddedPatches

(* The patch embedding finished and no block has run yet.                  *)
AfterPatchEmbed == pc = "mixer_layers" /\ i = 0
(* Block i has just returned.                                              *)
AfterBlock == pc = "mixer_layers" /\ i >= 1

----------------------------------------------------------------------------
(* C1: MlpMixer.forward runs patch embedding, then exactly                 *)
(* num_mixer_layers blocks, block k+1 on the output of block k, then the   *)
(* final normalization, the mean over axis 1 and the head, each once and   *)
(* in this order; with no blocks it is patch embedding, normalization,     *)
(* mean, head.                                                             *)

ExpectedStages ==
    << "patch_embed" >> \o [k \in 1 .. AskedLayers |-> "block"] \o << "norm", "mean", "head" >>

C1_StagesInOrder ==
    Running =>
      /\ IsPrefix(flog, ExpectedStages)
      /\ Len(blkIO) = i
      /\ \A k \in 1 .. (Len(blkIO) - 1) : blkIO[k + 1].in = blkIO[k].out
      /\ (i >= 1 /\ pc # "error") => blkIO[1].in = ExpectedPatchEmbed
      /\ pc \in {"norm", "mean", "head", "done"} => i = AskedLayers
      /\ pc = "mean" =>
            /\ flog = SubSeq(ExpectedStages, 1, AskedLayers + 2)
            /\ x = LayerNorm(model.norm, IF i = 0 THEN ExpectedPatchEmbed ELSE blkIO[i].out)
      /\ pc = "head" =>
            /\ flog = SubSeq(ExpectedStages, 1, AskedLayers + 3)
            /\ x = Mean1(LayerNorm(model.norm,
                                   IF i = 0 THEN ExpectedPatchEmbed ELSE blkIO[i].out))
      /\ pc = "done" =>
            /\ flog = ExpectedStages
            /\ x = Linear(model.head,
                          Mean1(LayerNorm(model.norm,
                                          IF i = 0 THEN ExpectedPatchEmbed ELSE blkIO[i].out)))

C1_Witness == pc = "done" /\ AskedLayers >= 2 /\ Len(blkIO) = AskedLayers

----------------------------------------------------------------------------
(* C2: the convolution of PatchEmbedding has kernel size = stride =        *)
(* patch_size, so the patches do not overlap, and for image_size >=        *)
(* patch_size, a multiple of it or not, the convolution produces           *)
(* num_patches = (image_size // patch_size)^2 positions: the output has    *)
(* shape [batch, num_patches, embed_dim].                                  *)

C2_NonOverlappingPatches ==
    Built =>
      LET pe == model.patch_embed
          conv == pe.patch_embed
          positions == ConvOutputSize(AskedImageSize, conv.kernel_size, conv.stride)
      IN  /\ conv.kernel_size = AskedPatchSize
          /\ conv.stride = AskedPatchSize
          /\ pe.num_patches = AskedNumPatches
          /\ AskedImageSize >= AskedPatchSize =>
               /\ positions * positions = pe.num_patches
               /\ \A j, k \in 0 .. (positions - 1) :
                    j # k => PatchPixels(conv, j) \cap PatchPixels(conv, k) = {}
               /\ \A j \in 0 .. (positions - 1) :
                    PatchPixels(conv, j) \subseteq 0 .. (AskedImageSize - 1)
          /\ InputMatches =>
               /\ pc # "error"
               /\ pc = "pe_flatten" =>
                    x.shape = << Batch, AskedEmbedDim, positions, positions >>
               /\ AfterPatchEmbed => x.shape = << Batch, pe.num_patches, AskedEmbedDim >>

C2_Witness ==
    /\ AfterPatchEmbed
    /\ InputMatches
    /\ AskedImageSize > AskedPatchSize
    /\ AskedImageSize % AskedPatchSize # 0
    /\ AskedPatchSize > 1

----------------------------------------------------------------------------
(* C3: MixerBlock.forward saves its input as residual, then norm1,         *)
(* transpose, token-mixing MLP, transpose back, gate, add the residual;    *)
(* then saves that sum as the new residual, norm2, channel-mixing MLP,     *)
(* gate, add the residual.  The token MLP reads the normalized and         *)
(* transposed block input, the channel MLP the normalized output of the    *)
(* first half, and the second residual is the output of the first half.    *)

ExpectedBlockOps ==
    << "h", "norm1", "transpose", "mlp_tokens", "transpose", "drop_path", "add",
       "h", "norm2", "mlp_channels", "drop_path", "add" >>

(* How many lines of MixerBlock.forward have run at a position.            *)
BlockPosition ==
    CASE pc = "blk_h1" -> 0
      [] pc = "blk_norm1" -> 1
      [] pc = "blk_t1" -> 2
      [] pc = "blk_mlp_tokens" -> 3
      [] InTokens -> 4
      [] pc = "blk_t2" -> 4
      [] pc = "blk_gate1" -> 5
      [] pc = "blk_add1" -> 6
      [] pc = "blk_h2" -> 7
      [] pc = "blk_norm2" -> 8
      [] pc = "blk_mlp_channels" -> 9
      [] InChannels -> 10
      [] pc = "blk_gate2" -> 10
      [] pc = "blk_add2" -> 11
      [] AfterBlock -> 12
      [] OTHER -> -1

C3_BlockStepsInOrder ==
    (Running /\ i >= 1) =>
      /\ IsPrefix(blog, ExpectedBlockOps)
      /\ BlockPosition >= 0 => Len(blog) = BlockPosition
      /\ (BlockPosition >= 1 /\ BlockPosition <= 7) => h = blkIn
      /\ BlockPosition >= 8 => h = half1
      /\ (BlockPosition >= 4 /\ BlockPosition <= 9) =>
           mlpIn = Transpose021(LayerNorm(model.mixer_layers[i].norm1, blkIn))
      /\ BlockPosition >= 10 => mlpIn = LayerNorm(model.mixer_layers[i].norm2, half1)
      /\ AfterBlock => x = blkIO[i].out

C3_Witness == AfterBlock /\ gate1 = "keep" /\ half1 # blkIn /\ h = half1

----------------------------------------------------------------------------
(* C4: for an input [batch, in_channels, image_size, image_size] the       *)
(* tensor is [batch, num_patches, embed_dim] after patch embedding, at the *)
(* input and output of every block and after the final normalization; the  *)
(* token-mixing MLP (num_patches -> tokens_dim -> num_patches) is applied  *)
(* to [batch, embed_dim, num_patches], the channel-mixing MLP (embed_dim   *)
(* -> channels_dim -> embed_dim) to [batch, num_patches, embed_dim]; the   *)
(* mean gives [batch, embed_dim] and the head [batch, num_classes].        *)

SeqShape == << Batch, AskedNumPatches, AskedEmbedDim >>
TransposedShape == << Batch, AskedEmbedDim, AskedNumPatches >>

C4_ShapesAlongForward ==
    InputMatches =>
      /\ pc # "error"
      /\ pc = "pe_conv" => x.shape = x0.shape
      /\ pc \in {"mixer_layers", "blk_h1", "blk_norm1", "blk_t1", "blk_gate1", "blk_add1",
                 "blk_h2", "blk_norm2", "blk_mlp_channels", "blk_gate2", "blk_add2",
                 "norm", "mean"} => x.shape = SeqShape
      /\ pc \in {"blk_mlp_tokens", "blk_t2"} => x.shape = TransposedShape
      /\ (i >= 1 /\ BlockPosition >= 1) => h.shape = SeqShape
      /\ \A k \in 1 .. Len(blkIO) :
            /\ blkIO[k].in.shape = SeqShape
            /\ (k < i \/ AfterBlock) => blkIO[k].out.shape = SeqShape
      /\ InTokens =>
            /\ mlpIn.shape = TransposedShape
            /\ mlp.fc1.in_features = AskedNumPatches
            /\ mlp.fc2.out_features = AskedNumPatches
            /\ mlp.fc1.out_features = mlp.fc2.in_features
            /\ pc = "mlp_fc1" => x.shape = TransposedShape
            /\ pc \in {"mlp_act", "mlp_dropout1", "mlp_fc2"} =>
                 x.shape = << Batch, AskedEmbedDim, mlp.fc1.out_features >>
            /\ pc = "mlp_dropout2" => x.shape = TransposedShape
      /\ InChannels =>
            /\ mlpIn.shape = SeqShape
            /\ mlp.fc1.in_features = AskedEmbedDim
            /\ mlp.fc2.out_features = AskedEmbedDim
            /\ mlp.fc1.out_features = mlp.fc2.in_features
            /\ pc = "mlp_fc1" => x.shape = SeqShape
            /\ pc \in {"mlp_act", "mlp_dropout1", "mlp_fc2"} =>
                 x.shape = << Batch, AskedNumPatches, mlp.fc1.out_features >>
            /\ pc = "mlp_dropout2" => x.shape = SeqShape
      /\ pc = "head" => x.shape = << Batch, AskedEmbedDim >>
      /\ pc = "done" => x.shape = << Batch, AskedNumClasses >>

C4_Witness ==
    /\ pc = "done"
    /\ InputMatches
    /\ AskedLayers >= 2
    /\ AskedNumPatches # AskedEmbedDim
    /\ AskedNumPatches > 1
    /\ Batch > 1

----------------------------------------------------------------------------
(* C5: Mlp.forward applies fc1, activation, dropout, fc2, dropout in this  *)
(* order; fc1 maps in_features to hidden_features and fc2 maps             *)
(* hidden_features back to in_features, so the last axis of the output has *)
(* the size of the last axis of the input.                                 *)

ExpectedMlpOps == << "fc1", "act", "dropout", "fc2", "dropout" >>

MlpPosition ==
    CASE pc = "mlp_fc1" -> 0
      [] pc = "mlp_act" -> 1
      [] pc = "mlp_dropout1" -> 2
      [] pc = "mlp_fc2" -> 3
      [] pc = "mlp_dropout2" -> 4
      [] pc \in {"blk_t2", "blk_gate2"} -> 5
      [] OTHER -> -1

AllMlps ==
    { model.mixer_layers[k].mlp_tokens : k \in 1 .. Len(model.mixer_layers) }
      \cup { model.mixer_layers[k].mlp_channels : k \in 1 .. Len(model.mixer_layers) }

C5_MlpOpsInOrder ==
    Built =>
      /\ \A m \in AllMlps :
            /\ m.fc1.out_features = m.fc2.in_features
            /\ m.fc2.out_features = m.fc1.in_features
      /\ MlpPosition >= 0 =>
            /\ mlog = SubSeq(ExpectedMlpOps, 1, MlpPosition)
            /\ MlpPosition = 0 => x = mlpIn
            /\ MlpPosition = 1 => x = Linear(mlp.fc1, mlpIn)
            /\ MlpPosition = 2 => x = GELU(Linear(mlp.fc1, mlpIn))
            /\ MlpPosition = 3 =>
                 x = Dropout(mlp.dropout, training, GELU(Linear(mlp.fc1, mlpIn)))
            /\ MlpPosition = 4 =>
                 x = Linear(mlp.fc2,
                            Dropout(mlp.dropout, training, GELU(Linear(mlp.fc1, mlpIn))))
            /\ MlpPosition = 5 =>
                 /\ x = Dropout(mlp.dropout, training,
                           Linear(mlp.fc2,
                                  Dropout(mlp.dropout, training,
                                          GELU(Linear(mlp.fc1, mlpIn)))))
                 /\ Last(x.shape) = Last(mlpIn.shape)
                 /\ Len(x.shape) = Len(mlpIn.shape)

C5_Witness ==
    /\ pc = "blk_gate2"
    /\ training
    /\ mlp.dropout > 0
    /\ mlp.fc1.out_features # mlp.fc1.in_features
    /\ x.val = mlpIn.val \o << "fc1", "gelu", "dropout", "fc2", "dropout" >>

----------------------------------------------------------------------------
(* C6: the model build_mlp_mixer returns has num_classes, image_size,      *)
(* number of blocks, embed_dim, dropout rate and droppath rate as the      *)
(* config gives them, and every block has these dropout and droppath       *)
(* rates.                                                                  *)

C6_BuildReadsConfig ==
    ByBuild =>
      /\ model.num_classes = config.MODEL.NUM_CLASSES
      /\ model.head.out_features = config.MODEL.NUM_CLASSES
      /\ model.patch_embed.image_size = << config.DATA.IMAGE_SIZE, config.DATA.IMAGE_SIZE >>
      /\ Len(model.mixer_layers) = config.MODEL.MIXER.NUM_LAYERS
      /\ model.embed_dim = config.MODEL.MIXER.HIDDEN_SIZE
      /\ model.patch_embed.embed_dim = config.MODEL.MIXER.HIDDEN_SIZE
      /\ \A k \in 1 .. Len(model.mixer_layers) :
            /\ model.mixer_layers[k].mlp_tokens.dropout = config.MODEL.DROPOUT
            /\ model.mixer_layers[k].mlp_channels.dropout = config.MODEL.DROPOUT
            /\ model.mixer_layers[k].drop_path.drop_prob = config.MODEL.DROPPATH
            /\ model.mixer_layers[k].norm1.dim = config.MODEL.MIXER.HIDDEN_SIZE

C6_Witness ==
    /\ ByBuild
    /\ pc = "ready"
    /\ Len(model.mixer_layers) >= 2
    /\ config.MODEL.DROPOUT # config.MODEL.DROPPATH

----------------------------------------------------------------------------
(* C7, as the code has it: the hidden width of mlp_tokens is               *)
(* int(mlp_ratio[0] * embed_dim) and that of mlp_channels is               *)
(* int(mlp_ratio[1] * embed_dim), the product truncated to an integer      *)
(* (embed_dim // 2 and 4 * embed_dim for the default ratio); both depend   *)
(* on embed_dim only, not on the number of patches.                        *)

(* w is the integer part of (ratio.n / ratio.d) * dim.                     *)
IsTruncatedProduct(w, ratio, dim) ==
    /\ ratio.d * w <= ratio.n * dim
    /\ ratio.n * dim < ratio.d * (w + 1)

----------------------------------------------------------------------------
(* C8: with patch_embed_norm the last step of PatchEmbedding.forward is a  *)
(* LayerNorm over embed_dim on the [batch, num_patches, embed_dim]         *)
(* sequence; without it (the default) the norm is Identity and the output  *)
(* is the flattened and transposed convolution output, unchanged.          *)

C8_PatchEmbedNorm ==
    Built =>
      /\ AskedPatchEmbedNorm => model.patch_embed.norm = NewLayerNorm(AskedEmbedDim)
      /\ ~AskedPatchEmbedNorm => model.patch_embed.norm = Identity
      /\ pc = "pe_norm" => x = EmbeddedPatches
      /\ (AfterPatchEmbed /\ AskedPatchEmbedNorm) =>
            /\ x = LayerNorm(NewLayerNorm(AskedEmbedDim), EmbeddedPatches)
            /\ Last(x.val) = "layer_norm"
            /\ Last(x.shape) = AskedEmbedDim
            /\ x # EmbeddedPatches
      /\ (AfterPatchEmbed /\ ~AskedPatchEmbedNorm) => x = EmbeddedPatches

C8_Witness ==
    /\ AfterPatchEmbed
    /\ AskedPatchEmbedNorm
    /\ InputMatches
    /\ x.shape = SeqShape

----------------------------------------------------------------------------
(* C9: in both halves of MixerBlock.forward only the MLP branch passes     *)
(* through the stochastic-depth gate and the residual is added ungated,    *)
(* and the one DropPath of the block gates both branches.  A half whose    *)
(* branch the gate zeroes returns its residual input unchanged, a block    *)
(* with both branches dropped returns its input unchanged, and with        *)
(* droppath = 0 the gate leaves the branch output as it is.                *)

C9_ResidualUngated ==
    (Running /\ i >= 1) =>
      /\ (BlockPosition >= 7 /\ BlockPosition <= 10) =>
            half1 = Add(DropPathForward(gate1, branch), blkIn)
      /\ (BlockPosition >= 7 /\ gate1 = "drop") => half1 = blkIn
      /\ BlockPosition = 7 => x = half1
      /\ BlockPosition = 11 => x = DropPathForward(gate2, branch)
      /\ AfterBlock =>
            /\ x = Add(DropPathForward(gate2, branch), half1)
            /\ gate2 = "drop" => x = half1
            /\ (gate1 = "drop" /\ gate2 = "drop") => x = blkIn
            /\ (gate1 = "off") <=> (gate2 = "off")
      /\ (AskedDroppath = 0 /\ BlockPosition \in {6, 11}) => x = branch
      /\ (~training /\ BlockPosition \in {6, 11}) => x = branch

C9_Witness ==
    /\ AfterBlock
    /\ i >= 2
    /\ gate1 = "drop"
    /\ gate2 = "drop"
    /\ x = blkIn
    /\ branch.val # Zero

====
